---- MODULE Spec2Model ----
(***************************************************************************)
(* Model of the DAG container (src/src/dag.py) and of the CondensedNode    *)
(* built on it (src/src/condensed_node.py).                                *)
(*                                                                         *)
(* An OrderedDict is a sequence of <<key, value>> pairs in insertion       *)
(* order.  Every method is a pure operator from the object (a record of    *)
(* its fields) and the arguments to a record [self, exc]: the object after *)
(* the call and the exception the call raised ("none" when it returned).   *)
(* The actions apply these operators to the state.                         *)
(***************************************************************************)
EXTENDS Integers, Sequences, FiniteSets, TLC

VARIABLES
    values,           \* self.values: OrderedDict name -> payload
    adjacency_table,  \* self.adjacency_table: OrderedDict name -> successor list
    type,             \* self.type (DAGCLASS for an instance of the base class)
    used_group_ids,   \* self.used_group_ids
    op,               \* the method called last
    args,             \* its name arguments (list arguments are not recorded)
    exc,              \* the exception it raised, "none" when it returned
    msg,              \* the message of that exception ("" when there is none)
    raised,           \* some call so far has raised
    fresh             \* the object was as constructed when the last call began

vars == <<values, adjacency_table, type, used_group_ids, op, args, exc, msg, raised, fresh>>

(* ------------------------------ bounds --------------------------------- *)

(* add_edge and add_sub_edge are called while fewer edges are present.     *)
MaxEdges == 3

(* The longest names and payloads lists handed to add_pipeline.            *)
MaxLen == 3

(* The longest names and payloads lists handed to add_group.               *)
MaxGroupLen == 2

(* ------------------------------ inputs --------------------------------- *)

NodeNames == {"a", "b", "c"}

Payloads == {1, 2}

GroupIds == {"g1", "g2"}

Members == {"m1", "m2"}

None == "None"

PIPE == "_pipe"

GROUP == "_group"

SUBDAG == "_subdag"

DAGCLASS == "_dag"

SeqsUpTo(S, n) == UNION {[1..k -> S] : k \in 0..n}

(* The payload lists handed to add_pipeline: <<1, 2, 1, ...>> of every     *)
(* length up to n.                                                         *)
PipelineLists(n) == {[i \in 1..k |-> 2 - (i % 2)] : k \in 0..n}

(* The payload lists handed to add_group: those, and their reversals.      *)
GroupLists(n) ==
    PipelineLists(n) \cup {[i \in 1..k |-> 2 - ((k + 1 - i) % 2)] : k \in 0..n}

(* A node payload: a plain task value or a group aggregate (OrderedDict).  *)
IntObj(p) == [tag |-> "int", n |-> p, items |-> <<>>]

DictObj(d) == [tag |-> "OrderedDict", n |-> 0, items |-> d]

(* Python's None as a return value.                                        *)
NoneObj == [tag |-> "None", n |-> 0, items |-> <<>>]

(* --------------------------- OrderedDict ------------------------------- *)

Keys(od) == [i \in 1..Len(od) |-> od[i][1]]

Has(od, k) == \E i \in 1..Len(od) : od[i][1] = k

Get(od, k) == od[CHOOSE i \in 1..Len(od) : od[i][1] = k][2]

Put(od, k, v) ==
    IF Has(od, k)
    THEN [i \in 1..Len(od) |-> IF od[i][1] = k THEN <<k, v>> ELSE od[i]]
    ELSE Append(od, <<k, v>>)

InList(l, x) == \E i \in 1..Len(l) : l[i] = x

(* list.remove(x): drops the first occurrence of x.                        *)
ListRemove(l, x) ==
    LET i == CHOOSE j \in 1..Len(l) : l[j] = x /\ \A k \in 1..(j-1) : l[k] # x
    IN  SubSeq(l, 1, i-1) \o SubSeq(l, i+1, Len(l))

Falsy(x) == x \in {None, ""}

(* ------------------------------ DAG ------------------------------------ *)

RECURSIVE rec_detect_cycle(_, _, _, _), detect_cycle_children(_, _, _, _, _)

(* _detect_cycle(v, visited, rstack): [found, visited, rstack, calls],      *)
(* calls counting the invocations of _detect_cycle, this one included.     *)
rec_detect_cycle(self, v, visited, rstack) ==
    LET r == detect_cycle_children(self, v, 1, visited \cup {v}, rstack \cup {v})
    IN  [r EXCEPT !.calls = @ + 1]

(* The loop over the successors of v, from the i-th one.                   *)
detect_cycle_children(self, v, i, visited, rstack) ==
    LET succ == Get(self.adjacency_table, v) IN
    IF i > Len(succ)
    THEN [found |-> FALSE, visited |-> visited, rstack |-> rstack \ {v}, calls |-> 0]
    ELSE LET c == succ[i] IN
         IF c \notin visited
         THEN LET r == rec_detect_cycle(self, c, visited, rstack) IN
              IF r.found THEN r
              ELSE LET rest == detect_cycle_children(self, v, i+1, r.visited, r.rstack)
                   IN  [rest EXCEPT !.calls = @ + r.calls]
         ELSE IF c \in rstack
         THEN [found |-> TRUE, visited |-> visited, rstack |-> rstack, calls |-> 0]
         ELSE detect_cycle_children(self, v, i+1, visited, rstack)

RECURSIVE detect_cycle_roots(_, _, _, _)

(* detect_cycle starting a search from the first key of values only.       *)
detect_cycle_first_root(self, i, visited, rstack) ==
    IF i > Len(self.values) THEN [found |-> FALSE, calls |-> 0]
    ELSE LET r == rec_detect_cycle(self, self.values[i][1], visited, rstack)
         IN  [found |-> r.found, calls |-> r.calls]

(* The loop of detect_cycle over self.values, from the i-th key:           *)
(* [found, calls].                                                         *)
detect_cycle_roots(self, i, visited, rstack) ==
    IF i > Len(self.values) THEN [found |-> FALSE, calls |-> 0]
    ELSE LET v == self.values[i][1] IN
         IF v \notin visited
         THEN LET r == rec_detect_cycle(self, v, visited, rstack) IN
              IF r.found THEN [found |-> TRUE, calls |-> r.calls]
              ELSE LET rest == detect_cycle_roots(self, i+1, r.visited, r.rstack)
                   IN  [rest EXCEPT !.calls = @ + r.calls]
         ELSE detect_cycle_roots(self, i+1, visited, rstack)

detect_cycle(self) == detect_cycle_roots(self, 1, {}, {}).found

(* The number of invocations of _detect_cycle in one detect_cycle().       *)
detect_cycle_calls(self) == detect_cycle_roots(self, 1, {}, {}).calls

RECURSIVE rec_topological_sort(_, _, _, _), topological_sort_children(_, _, _, _, _)

(* _topological_sort appending v to the list instead of prepending it.     *)
rec_topological_sort_append(self, v, visited, stack) ==
    LET r == topological_sort_children(self, v, 1, visited \cup {v}, stack)
    IN  [visited |-> r.visited, stack |-> r.stack \o <<v>>]

(* _topological_sort(v, visited, stack): [visited, stack]; visited is the  *)
(* set of keys whose flag is True.                                         *)
rec_topological_sort(self, v, visited, stack) ==
    LET r == topological_sort_children(self, v, 1, visited \cup {v}, stack)
    IN  [visited |-> r.visited, stack |-> <<v>> \o r.stack]

topological_sort_children(self, v, i, visited, stack) ==
    LET succ == Get(self.adjacency_table, v) IN
    IF i > Len(succ)
    THEN [visited |-> visited, stack |-> stack]
    ELSE LET e == succ[i] IN
         IF e \notin visited
         THEN LET r == rec_topological_sort(self, e, visited, stack) IN
              topological_sort_children(self, v, i+1, r.visited, r.stack)
         ELSE topological_sort_children(self, v, i+1, visited, stack)

RECURSIVE topological_sort_roots(_, _, _, _)

(* The loop of topological_sort starting _topological_sort from every key, *)
(* visited or not.                                                         *)
topological_sort_roots_again(self, i, visited, stack) ==
    IF i > Len(self.values) THEN stack
    ELSE LET r == rec_topological_sort(self, self.values[i][1], visited, stack)
         IN  topological_sort_roots(self, i+1, r.visited, r.stack)

topological_sort_roots(self, i, visited, stack) ==
    IF i > Len(self.values) THEN stack
    ELSE LET v == self.values[i][1] IN
         IF v \notin visited
         THEN LET r == rec_topological_sort(self, v, visited, stack) IN
              topological_sort_roots(self, i+1, r.visited, r.stack)
         ELSE topological_sort_roots(self, i+1, visited, stack)

(* topological_sort beginning at the first key of values only.             *)
topological_sort_from_first(self) ==
    IF Len(self.values) = 0 THEN <<>>
    ELSE rec_topological_sort(self, self.values[1][1], {}, <<>>).stack

topological_sort(self) == topological_sort_roots(self, 1, {}, <<>>)

(* A call of topological_sort(): the object it leaves and the list it      *)
(* returns. The method assigns to its locals v_stack and v_visited only.   *)
topological_sort_call(self) ==
    [self |-> self, exc |-> "none", msg |-> "", ret |-> topological_sort(self)]

Return(self) == [self |-> self, exc |-> "none", msg |-> ""]

(* raise e(m)                                                              *)
RaiseMsg(self, e, m) == [self |-> self, exc |-> e, msg |-> m]

Raise(self, e) == RaiseMsg(self, e, "")

(* add_node without the test for a node already present.                   *)
add_node_overwrite(self, name, obj) ==
    Return([self EXCEPT !.values = Put(@, name, obj),
                        !.adjacency_table = Put(@, name, <<>>)])

add_node(self, name, obj) ==
    IF Has(self.values, name)
    THEN Return(self)
    ELSE Return([self EXCEPT !.values = Put(@, name, obj),
                             !.adjacency_table = Put(@, name, <<>>)])

(* add_edge without the cycle check after the append.                      *)
add_edge_unchecked(self, src, dest) ==
    IF src = dest THEN Return(self)
    ELSE IF ~Has(self.adjacency_table, src) THEN Raise(self, "ValueError")
    ELSE IF ~Has(self.adjacency_table, dest) THEN Return(self)
    ELSE IF InList(Get(self.adjacency_table, src), dest) THEN Return(self)
    ELSE Return([self EXCEPT !.adjacency_table =
                    Put(@, src, Append(Get(@, src), dest))])

add_edge(self, src, dest) ==
    IF src = dest THEN Return(self)
    ELSE IF ~Has(self.adjacency_table, src) THEN Raise(self, "ValueError")
    ELSE IF ~Has(self.adjacency_table, dest) THEN Return(self)
    ELSE IF InList(Get(self.adjacency_table, src), dest) THEN Return(self)
    ELSE LET new == [self EXCEPT !.adjacency_table =
                        Put(@, src, Append(Get(@, src), dest))]
         IN  IF detect_cycle(new) THEN Raise(new, "Exception")
             ELSE Return(new)

remove_edge(self, src, dest) ==
    IF ~Has(self.adjacency_table, src) THEN Return(self)
    ELSE IF ~Has(self.adjacency_table, dest) THEN Return(self)
    ELSE IF ~InList(Get(self.adjacency_table, src), dest)
    THEN Raise(self, "ValueError")
    ELSE Return([self EXCEPT !.adjacency_table =
                    Put(@, src, ListRemove(Get(@, src), dest))])

(* -------------------------- CondensedNode ------------------------------ *)

(* add_sub_edge without the test for an edge already present.              *)
add_sub_edge_repeat(self, src, dest) ==
    IF src = dest THEN RaiseMsg(self, "Exception", "self referring cycle sub-edge")
    ELSE IF ~Has(self.adjacency_table, src)
    THEN RaiseMsg(self, "ValueError", "sub-node does not exist")
    ELSE IF ~Has(self.adjacency_table, dest)
    THEN RaiseMsg(self, "Exception", "sub-node does not exist")
    ELSE LET new == [self EXCEPT !.adjacency_table =
                        Put(@, src, Append(Get(@, src), dest))]
         IN  IF self.type # PIPE /\ detect_cycle(new)
             THEN RaiseMsg(new, "Exception", "crates a cycle")
             ELSE Return(new)

add_sub_edge(self, src, dest) ==
    IF src = dest THEN RaiseMsg(self, "Exception", "self referring cycle sub-edge")
    ELSE IF ~Has(self.adjacency_table, src)
    THEN RaiseMsg(self, "ValueError", "sub-node does not exist")
    ELSE IF ~Has(self.adjacency_table, dest)
    THEN RaiseMsg(self, "Exception", "sub-node does not exist")
    ELSE IF InList(Get(self.adjacency_table, src), dest) THEN Return(self)
    ELSE LET new == [self EXCEPT !.adjacency_table =
                        Put(@, src, Append(Get(@, src), dest))]
         IN  IF self.type # PIPE /\ detect_cycle(new)
             THEN RaiseMsg(new, "Exception", "crates a cycle")
             ELSE Return(new)

(* add_sub_node inserting a Pipeline's new member without the edge from    *)
(* the member before it.                                                   *)
add_sub_node_unchained(self, name, obj) ==
    IF Has(self.values, name) THEN Return(self)
    ELSE Return([self EXCEPT !.values = Put(@, name, obj),
                             !.adjacency_table = Put(@, name, <<>>)])

(* add_sub_node chaining a Pipeline's new member to the first member, not  *)
(* to the most recently inserted one.                                      *)
add_sub_node_from_first(self, name, obj) ==
    IF Has(self.values, name) THEN Return(self)
    ELSE LET added == [self EXCEPT !.values = Put(@, name, obj),
                                   !.adjacency_table = Put(@, name, <<>>)]
         IN  IF self.type = PIPE /\ Len(self.values) # 0
             THEN add_sub_edge(added, self.values[1][1], name)
             ELSE Return(added)

add_sub_node(self, name, obj) ==
    IF Has(self.values, name) THEN Return(self)
    ELSE LET added == [self EXCEPT !.values = Put(@, name, obj),
                                   !.adjacency_table = Put(@, name, <<>>)]
             s1 == IF self.type = GROUP \/ self.type = SUBDAG THEN added ELSE self
         IN  IF s1.type = PIPE /\ Len(s1.values) # 0
             THEN LET src_edge == s1.values[Len(s1.values)][1]
                      s2 == [s1 EXCEPT !.values = Put(@, name, obj),
                                       !.adjacency_table = Put(@, name, <<>>)]
                  IN  add_sub_edge(s2, src_edge, name)
             ELSE IF s1.type = PIPE
             THEN Return([s1 EXCEPT !.values = Put(@, name, obj),
                                    !.adjacency_table = Put(@, name, <<>>)])
             ELSE Return(s1)

RECURSIVE add_pipeline_nodes(_, _, _, _)

(* The loop of add_pipeline over range(len(pipeline)), from item i.        *)
add_pipeline_nodes(self, names, pipeline, i) ==
    IF i > Len(pipeline) THEN Return(self)
    ELSE LET r == add_sub_node(self, names[i], IntObj(pipeline[i])) IN
         IF r.exc # "none" THEN r
         ELSE add_pipeline_nodes(r.self, names, pipeline, i+1)

RECURSIVE add_pipeline_edges(_, _, _)

(* The loop of add_pipeline over range(len(keys)-1), from index key.       *)
add_pipeline_edges(self, keys, key) ==
    IF key > Len(keys) - 1 THEN Return(self)
    ELSE LET r == add_sub_edge(self, keys[key], keys[key+1]) IN
         IF r.exc # "none" THEN r
         ELSE add_pipeline_edges(r.self, keys, key+1)

(* add_pipeline without the test for a single payload.                     *)
add_pipeline_single(self, names, pipeline) ==
    IF self.type # PIPE
    THEN RaiseMsg(self, "Exception", "Adding a pipeline is not allowed")
    ELSE IF Len(pipeline) = 0 THEN RaiseMsg(self, "Exception", "Pipe has no nodes")
    ELSE IF Len(names) # Len(pipeline)
    THEN RaiseMsg(self, "Exception", "should be of the same length")
    ELSE LET r == add_pipeline_nodes(self, names, pipeline, 1) IN
         IF r.exc # "none" THEN r
         ELSE add_pipeline_edges(r.self, Keys(r.self.values), 1)

add_pipeline(self, names, pipeline) ==
    IF self.type # PIPE
    THEN RaiseMsg(self, "Exception", "Adding a pipeline is not allowed")
    ELSE IF Len(names) # 0 /\ Len(pipeline) = 1
    THEN RaiseMsg(self, "Exception", "Need more than one value")
    ELSE IF Len(pipeline) = 0 THEN RaiseMsg(self, "Exception", "Pipe has no nodes")
    ELSE IF Len(names) # Len(pipeline)
    THEN RaiseMsg(self, "Exception", "should be of the same length")
    ELSE LET r == add_pipeline_nodes(self, names, pipeline, 1) IN
         IF r.exc # "none" THEN r
         ELSE add_pipeline_edges(r.self, Keys(r.self.values), 1)

RECURSIVE add_group_items(_, _, _, _)

(* The loop of add_group that fills internal_values, from item i:          *)
(* [returned, internal_values].                                            *)
add_group_items(names, group, i, internal_values) ==
    IF i > Len(group) THEN [returned |-> FALSE, internal_values |-> internal_values]
    ELSE IF Has(internal_values, names[i])
    THEN [returned |-> TRUE, internal_values |-> internal_values]
    ELSE add_group_items(names, group, i+1, Put(internal_values, names[i], group[i]))

(* add_group_mark forgetting the ids recorded before.                      *)
add_group_mark_only(self, group_id) ==
    IF group_id \notin self.used_group_ids
    THEN Return([self EXCEPT !.used_group_ids = {group_id}])
    ELSE Return(self)

add_group_mark(self, group_id) ==
    IF group_id \notin self.used_group_ids
    THEN Return([self EXCEPT !.used_group_ids = @ \cup {group_id}])
    ELSE Return(self)

RECURSIVE add_group_members(_, _, _)

(* Every member of internal_values inserted as a sub-node of its own.      *)
add_group_members(self, internal_values, i) ==
    IF i > Len(internal_values) THEN self
    ELSE add_group_members(
             add_sub_node(self, internal_values[i][1], IntObj(internal_values[i][2])).self,
             internal_values, i+1)

(* add_group_insert inserting the members next to the aggregate.           *)
add_group_insert_members(self, group_id, depends_on, internal_values) ==
    LET r1 == add_sub_node(add_group_members(self, internal_values, 1),
                           group_id, DictObj(internal_values)) IN
    IF r1.exc # "none" THEN r1
    ELSE IF ~Falsy(depends_on)
    THEN LET r2 == add_sub_edge(r1.self, depends_on, group_id) IN
         IF r2.exc # "none" THEN r2
         ELSE add_group_mark(r2.self, group_id)
    ELSE add_group_mark(r1.self, group_id)

(* The end of add_group: the aggregate becomes the sub-node group_id, the  *)
(* edge from depends_on is drawn and group_id is recorded as used.         *)
add_group_insert(self, group_id, depends_on, internal_values) ==
    LET r1 == add_sub_node(self, group_id, DictObj(internal_values)) IN
    IF r1.exc # "none" THEN r1
    ELSE IF ~Falsy(depends_on)
    THEN LET r2 == add_sub_edge(r1.self, depends_on, group_id) IN
         IF r2.exc # "none" THEN r2
         ELSE add_group_mark(r2.self, group_id)
    ELSE add_group_mark(r1.self, group_id)

(* add_group without the test of used_group_ids.                           *)
add_group_any_id(self, group_id, depends_on, names, group) ==
    IF self.type # GROUP
    THEN RaiseMsg(self, "Exception", "Adding a group is not allowed")
    ELSE IF Len(names) # 0 /\ Len(group) = 1
    THEN RaiseMsg(self, "Exception", "Can not create group with one node")
    ELSE IF Len(group) = 0 THEN RaiseMsg(self, "Exception", "No nodes to add")
    ELSE IF Falsy(group_id)
    THEN RaiseMsg(self, "ValueError", "Group_id must not be empty")
    ELSE IF Len(names) # Len(group) THEN add_group_mark(self, group_id)
    ELSE LET items == add_group_items(names, group, 1, <<>>) IN
         IF items.returned THEN Return(self)
         ELSE add_group_insert(self, group_id, depends_on, items.internal_values)

add_group(self, group_id, depends_on, names, group) ==
    IF self.type # GROUP
    THEN RaiseMsg(self, "Exception", "Adding a group is not allowed")
    ELSE IF Len(names) # 0 /\ Len(group) = 1
    THEN RaiseMsg(self, "Exception", "Can not create group with one node")
    ELSE IF Len(group) = 0 THEN RaiseMsg(self, "Exception", "No nodes to add")
    ELSE IF Falsy(group_id)
    THEN RaiseMsg(self, "ValueError", "Group_id must not be empty")
    ELSE IF group_id \in self.used_group_ids
    THEN RaiseMsg(self, "Exception", "has already been added")
    ELSE IF Len(names) # Len(group) THEN add_group_mark(self, group_id)
    ELSE LET items == add_group_items(names, group, 1, <<>>) IN
         IF items.returned THEN Return(self)
         ELSE add_group_insert(self, group_id, depends_on, items.internal_values)

(* get_group without the test of the kind.                                 *)
get_group_any_kind(self, group_id) ==
    IF group_id \in self.used_group_ids
    THEN [self |-> self, exc |-> "none", msg |-> "",
          ret |-> IF Has(self.values, group_id)
                  THEN Get(self.values, group_id) ELSE NoneObj]
    ELSE [self |-> self, exc |-> "none", msg |-> "", ret |-> NoneObj]

(* [self, exc, msg, ret]: ret is the value returned, NoneObj for None.     *)
get_group(self, group_id) ==
    IF self.type = GROUP
    THEN IF group_id \in self.used_group_ids
         THEN [self |-> self, exc |-> "none", msg |-> "",
               ret |-> IF Has(self.values, group_id)
                       THEN Get(self.values, group_id) ELSE NoneObj]
         ELSE [self |-> self, exc |-> "none", msg |-> "", ret |-> NoneObj]
    ELSE [self |-> self, exc |-> "Exception", msg |-> "Can not retrive group",
          ret |-> NoneObj]

(* ------------------------------ state ---------------------------------- *)

Self ==
    [values |-> values, adjacency_table |-> adjacency_table,
     type |-> type, used_group_ids |-> used_group_ids]

Constructed(t) ==
    [values |-> <<>>, adjacency_table |-> <<>>, type |-> t, used_group_ids |-> {}]

NumEdges(self) ==
    Cardinality({<<i, j>> \in (1..Len(self.adjacency_table)) \X (1..Cardinality(NodeNames)) :
                    j <= Len(self.adjacency_table[i][2])})

(* The state after the call o(a) with result r.                            *)
Apply(o, a, r) ==
    /\ values' = r.self.values
    /\ adjacency_table' = r.self.adjacency_table
    /\ type' = r.self.type
    /\ used_group_ids' = r.self.used_group_ids
    /\ op' = o
    /\ args' = a
    /\ exc' = r.exc
    /\ msg' = r.msg
    /\ raised' = (raised \/ r.exc # "none")
    /\ fresh' = (Self = Constructed(type))

New(t) ==
    /\ values = <<>>
    /\ adjacency_table = <<>>
    /\ type = t
    /\ used_group_ids = {}
    /\ op = "__init__"
    /\ args = <<>>
    /\ exc = "none"
    /\ msg = ""
    /\ raised = FALSE
    /\ fresh = TRUE

AddNode == \E name \in NodeNames, p \in Payloads :
    Apply("add_node", <<name, p>>, add_node(Self, name, IntObj(p)))

AddEdge == \E src \in NodeNames, dest \in NodeNames :
    /\ NumEdges(Self) < MaxEdges
    /\ Apply("add_edge", <<src, dest>>, add_edge(Self, src, dest))

RemoveEdge == \E src \in NodeNames, dest \in NodeNames :
    Apply("remove_edge", <<src, dest>>, remove_edge(Self, src, dest))

AddSubNode == \E name \in NodeNames, p \in Payloads :
    Apply("add_sub_node", <<name, p>>, add_sub_node(Self, name, IntObj(p)))

AddSubEdge == \E src \in NodeNames, dest \in NodeNames :
    /\ NumEdges(Self) < MaxEdges
    /\ Apply("add_sub_edge", <<src, dest>>, add_sub_edge(Self, src, dest))

AddPipeline == \E names \in SeqsUpTo(NodeNames, MaxLen), pipeline \in PipelineLists(MaxLen) :
    Apply("add_pipeline", <<>>, add_pipeline(Self, names, pipeline))

AddGroup ==
    \E group_id \in GroupIds \cup {""}, depends_on \in GroupIds \cup {None, "m1"},
       names \in SeqsUpTo(Members, MaxGroupLen), group \in GroupLists(MaxGroupLen) :
    Apply("add_group", <<group_id, depends_on>>,
          add_group(Self, group_id, depends_on, names, group))

GetGroup == \E group_id \in GroupIds :
    Apply("get_group", <<group_id>>, get_group(Self, group_id))

(* add_group called on a node that is not a Group.                         *)
AddGroupOffKind == type # GROUP /\ AddGroup

InitGraph == New(DAGCLASS)

NextGraph == AddNode \/ AddEdge \/ RemoveEdge

SpecGraph == InitGraph /\ [][NextGraph]_vars

InitPipe == New(PIPE)

NextPipe == AddSubNode \/ AddSubEdge \/ AddPipeline

SpecPipe == InitPipe /\ [][NextPipe]_vars

InitGroup == New(GROUP)

NextGroup == AddGroup

SpecGroup == InitGroup /\ [][NextGroup]_vars

(* A node of any of the three kinds, filled by add_sub_node and            *)
(* add_pipeline, on which get_group is called and, where the kind is not   *)
(* Group, add_group.                                                       *)
InitKinds == \E t \in {PIPE, GROUP, SUBDAG} : New(t)

NextKinds == AddSubNode \/ AddPipeline \/ GetGroup \/ AddGroupOffKind

SpecKinds == InitKinds /\ [][NextKinds]_vars

(* A Pipeline or SubDAG node on which the edge methods of both classes are *)
(* called: add_sub_node, add_sub_edge and the inherited add_edge and       *)
(* remove_edge.                                                            *)
InitNode == \E t \in {PIPE, SUBDAG} : New(t)

NextNode == AddSubNode \/ AddSubEdge \/ AddEdge \/ RemoveEdge

SpecNode == InitNode /\ [][NextNode]_vars

(* --------------------- vocabulary of the properties -------------------- *)

Nodes(self) == {self.values[i][1] : i \in 1..Len(self.values)}

Edges(self) ==
    {<<self.adjacency_table[i][1], self.adjacency_table[i][2][j]>> :
        <<i, j>> \in {<<i, j>> \in (1..Len(self.adjacency_table)) \X (1..Cardinality(NodeNames)) :
                        j <= Len(self.adjacency_table[i][2])}}

RECURSIVE Closure(_, _)

(* The pairs joined by a path of at most n + 1 edges of R.                 *)
Closure(R, n) ==
    IF n = 0 THEN R
    ELSE LET C == Closure(R, n - 1)
         IN  C \cup {<<e[1], f[2]>> : <<e, f>> \in {<<e, f>> \in C \X R : e[2] = f[1]}}

(* Some node reaches itself through one or more edges.                     *)
HasCycle(self) ==
    \E e \in Closure(Edges(self), Cardinality(Edges(self))) : e[1] = e[2]

WithEdge(self, src, dest) ==
    [self EXCEPT !.adjacency_table = Put(@, src, Append(Get(@, src), dest))]

Pos(l, x) == CHOOSE i \in 1..Len(l) : l[i] = x

Distinct(l) == \A i, j \in 1..Len(l) : l[i] = l[j] => i = j

(* ------------------------------ claims --------------------------------- *)

(* C1: add_edge(src, dest) between existing nodes, the edge absent, that   *)
(* would close a directed cycle fails with an error and leaves             *)
(* adjacency_table as it was before the call.                              *)
C1_CycleRejectedAndRolledBack ==
    [][\A src, dest \in NodeNames :
        ( /\ op' = "add_edge" /\ args' = <<src, dest>>
          /\ src # dest
          /\ Has(adjacency_table, src) /\ Has(adjacency_table, dest)
          /\ ~InList(Get(adjacency_table, src), dest)
          /\ HasCycle(WithEdge(Self, src, dest)) )
        => (exc' # "none" /\ adjacency_table' = adjacency_table)]_vars

(* C2: on a Graph, while no call has raised, detect_cycle() is false.      *)
C2_AcyclicAfterSuccessfulCalls ==
    (type = DAGCLASS /\ ~raised) => ~detect_cycle(Self)

C2_Witness ==
    /\ type = DAGCLASS /\ ~raised
    /\ op = "add_edge" /\ exc = "none" /\ args = <<"a", "c">>
    /\ Edges(Self) = {<<"a", "b">>, <<"b", "c">>, <<"a", "c">>}

(* C3: on a CondensedNode of any kind, while no call has raised, the       *)
(* internal graph is acyclic and detect_cycle() is false: add_sub_edge     *)
(* rejects every edge that would close a cycle.                            *)
C3_SubEdgeKeepsAcyclic ==
    (type \in {PIPE, GROUP, SUBDAG} /\ ~raised)
        => (~HasCycle(Self) /\ ~detect_cycle(Self))

(* C4: on a Graph, while no call has raised, every edge (u, v) has u       *)
(* strictly before v in topological_sort().                                *)
C4_TopologicalValidity ==
    (type = DAGCLASS /\ ~raised) =>
        LET order == topological_sort(Self) IN
        \A e \in Edges(Self) :
            /\ InList(order, e[1]) /\ InList(order, e[2])
            /\ Pos(order, e[1]) < Pos(order, e[2])

C4_Witness ==
    /\ type = DAGCLASS /\ ~raised
    /\ Keys(values) = <<"a", "b", "c">>
    /\ Edges(Self) = {<<"c", "b">>, <<"b", "a">>, <<"c", "a">>}
    /\ topological_sort(Self) = <<"c", "b", "a">>

(* C5: add_edge(x, y) and add_sub_edge(x, y) with x # y and y not a node   *)
(* fail with an error, whether or not x is a node, and change neither      *)
(* adjacency_table nor values.                                             *)
C5_UnknownDestRejected ==
    [][\A x, y \in NodeNames :
        ( /\ op' \in {"add_edge", "add_sub_edge"} /\ args' = <<x, y>>
          /\ x # y
          /\ ~Has(values, y) )
        => ( /\ exc' # "none"
             /\ adjacency_table' = adjacency_table
             /\ values' = values )]_vars

(* C6: add_edge(x, x) and add_sub_edge(x, x) fail with an error for every  *)
(* name x, and adjacency_table gets no self-loop.                          *)
C6_SelfLoopRejected ==
    [][\A x \in NodeNames :
        (op' \in {"add_edge", "add_sub_edge"} /\ args' = <<x, x>>)
        => (exc' # "none" /\ \A e \in Edges(Self)' : e[1] # e[2])]_vars

(* C7: add_node(a, x) then add_node(a, y) leaves the Graph as the first    *)
(* call left it (payload kept, successor list not reset); add_edge(a, b)   *)
(* for an edge already present returns and leaves the Graph unchanged.     *)
C7_InsertionIdempotent ==
    type = DAGCLASS =>
        /\ \A a \in NodeNames, x, y \in Payloads :
              LET first == add_node(Self, a, IntObj(x))
                  second == add_node(first.self, a, IntObj(y))
              IN  /\ first.exc = "none" /\ second.exc = "none"
                  /\ second.self = first.self
        /\ \A a, b \in NodeNames :
              (Has(adjacency_table, a) /\ InList(Get(adjacency_table, a), b)) =>
                  LET again == add_edge(Self, a, b)
                  IN  again.exc = "none" /\ again.self = Self

C7_Witness ==
    /\ type = DAGCLASS
    /\ op = "add_node" /\ args = <<"a", 2>> /\ exc = "none"
    /\ Has(values, "a") /\ Get(values, "a") = IntObj(1)
    /\ Get(adjacency_table, "a") = <<"b">>

(* C8: remove_edge(src, dest) never raises; it removes exactly the edge    *)
(* (src, dest) when both are nodes and the edge is present, and changes    *)
(* nothing otherwise.                                                      *)
C8_RemoveEdgeNeverFails ==
    [][\A src, dest \in NodeNames :
        (op' = "remove_edge" /\ args' = <<src, dest>>)
        => /\ exc' = "none"
           /\ values' = values
           /\ Keys(adjacency_table') = Keys(adjacency_table)
           /\ Edges(Self)' = Edges(Self) \ {<<src, dest>>}]_vars

(* C9: on a freshly constructed Pipeline node, add_pipeline of n >= 2      *)
(* pairwise distinct names with n payloads returns, yields exactly the     *)
(* edges (names[i], names[i+1]) and topological_sort() returns names.      *)
C9_PipelineChaining ==
    (type = PIPE /\ Self = Constructed(PIPE)) =>
        \A names \in SeqsUpTo(NodeNames, MaxLen), pipeline \in PipelineLists(MaxLen) :
            (Len(names) >= 2 /\ Distinct(names) /\ Len(pipeline) = Len(names)) =>
                LET r == add_pipeline(Self, names, pipeline)
                IN  /\ r.exc = "none"
                    /\ Keys(r.self.values) = names
                    /\ Edges(r.self) =
                         {<<names[i], names[i+1]>> : i \in 1..(Len(names) - 1)}
                    /\ topological_sort(r.self) = names

C9_Witness ==
    /\ type = PIPE /\ fresh
    /\ op = "add_pipeline" /\ exc = "none"
    /\ Keys(values) = <<"c", "a", "b">>
    /\ Edges(Self) = {<<"c", "a">>, <<"a", "b">>}
    /\ topological_sort(Self) = <<"c", "a", "b">>

(* C10: on a Group node built by add_group calls alone, the keys of values *)
(* and adjacency_table are group ids, never member names; no member name   *)
(* is in a successor list; every edge joins two aggregates.                *)
C10_GroupIsolation ==
    type = GROUP =>
        /\ Nodes(Self) \subseteq GroupIds
        /\ {adjacency_table[i][1] : i \in 1..Len(adjacency_table)} \subseteq GroupIds
        /\ Nodes(Self) \cap Members = {}
        /\ \A e \in Edges(Self) :
              /\ e[1] \notin Members /\ e[2] \notin Members
              /\ e[1] \in Nodes(Self) /\ e[2] \in Nodes(Self)
              /\ Get(values, e[1]).tag = "OrderedDict"
              /\ Get(values, e[2]).tag = "OrderedDict"

C10_Witness ==
    /\ type = GROUP /\ ~raised
    /\ op = "add_group" /\ args = <<"g2", "g1">> /\ exc = "none"
    /\ used_group_ids = {"g1", "g2"}
    /\ Keys(values) = <<"g1", "g2">>
    /\ Get(values, "g1") = DictObj(<< <<"m1", 1>>, <<"m2", 2>> >>)
    /\ Get(values, "g2") = DictObj(<< <<"m2", 2>>, <<"m1", 1>> >>)
    /\ Edges(Self) = {<<"g1", "g2">>}

(* Argument checks of add_group, as the specification lists them: a        *)
(* non-empty id, at least two payloads, as many names as payloads.         *)
GroupArgsPass(group_id, names, group) ==
    /\ ~Falsy(group_id)
    /\ Len(group) >= 2
    /\ Len(names) = Len(group)

(* C11: on a Group node, add_group called with names and payloads of       *)
(* different lengths, or with exactly one payload (whatever the names,     *)
(* the empty list included), fails with an error and leaves values,        *)
(* adjacency_table and used_group_ids unchanged.                           *)
C11_BadGroupArgsRejected ==
    [][\A group_id \in GroupIds \cup {""}, depends_on \in GroupIds \cup {None, "m1"},
          names \in SeqsUpTo(Members, MaxGroupLen), group \in GroupLists(MaxGroupLen) :
        ( /\ type = GROUP /\ op' = "add_group"
          /\ (Len(names) # Len(group) \/ Len(group) = 1)
          /\ Apply("add_group", <<group_id, depends_on>>,
                   add_group(Self, group_id, depends_on, names, group)) )
        => ( /\ exc' # "none"
             /\ values' = values
             /\ adjacency_table' = adjacency_table
             /\ used_group_ids' = used_group_ids )]_vars

(* C12: an add_group call that ends in an error after its argument checks  *)
(* passed (depends_on names a nonexistent sub-node, depends_on equals the  *)
(* group id, or the dependency edge is rejected) leaves values,            *)
(* adjacency_table and used_group_ids as they were before the call.        *)
C12_FailedGroupRolledBack ==
    [][\A group_id \in GroupIds \cup {""}, depends_on \in GroupIds \cup {None, "m1"},
          names \in SeqsUpTo(Members, MaxGroupLen), group \in GroupLists(MaxGroupLen) :
        ( /\ type = GROUP /\ op' = "add_group" /\ exc' # "none"
          /\ GroupArgsPass(group_id, names, group)
          /\ group_id \notin used_group_ids
          /\ Apply("add_group", <<group_id, depends_on>>,
                   add_group(Self, group_id, depends_on, names, group)) )
        => ( /\ values' = values
             /\ adjacency_table' = adjacency_table
             /\ used_group_ids' = used_group_ids )]_vars

(* The mapping add_group builds from names and payloads of equal length.   *)
GroupOf(names, group) == DictObj([i \in 1..Len(names) |-> <<names[i], group[i]>>])

(* C13: on a Group node, after any sequence of add_group calls, get_group  *)
(* of an id in used_group_ids returns the ordered mapping built from the   *)
(* names and payloads of the call that registered the id (never not-found, *)
(* never another payload, and the same mapping ever after), and get_group  *)
(* of an id not in used_group_ids returns not-found.                       *)
C13_GetGroupReturnsRegistered ==
    [][type = GROUP =>
        /\ \A id \in GroupIds :
              IF id \in used_group_ids'
              THEN get_group(Self', id).ret.tag = "OrderedDict"
              ELSE get_group(Self', id).ret = NoneObj
        /\ \A id \in used_group_ids :
              get_group(Self', id).ret = get_group(Self, id).ret
        /\ \A group_id \in GroupIds, depends_on \in GroupIds \cup {None, "m1"},
              names \in SeqsUpTo(Members, MaxGroupLen), group \in GroupLists(MaxGroupLen) :
              ( /\ op' = "add_group"
                /\ group_id \notin used_group_ids /\ group_id \in used_group_ids'
                /\ Len(names) = Len(group)
                /\ Apply("add_group", <<group_id, depends_on>>,
                         add_group(Self, group_id, depends_on, names, group)) )
              => get_group(Self', group_id).ret = GroupOf(names, group)]_vars

(* C14: once g is in used_group_ids, every further add_group(g, ...) whose *)
(* arguments pass the argument checks, whatever depends_on, names and      *)
(* payloads, fails with the duplicate-id error and changes nothing:        *)
(* values, adjacency_table and used_group_ids stay as they were and        *)
(* get_group(g) returns what it returned before.                           *)
C14_DuplicateIdRejected ==
    type = GROUP =>
        \A g \in used_group_ids, depends_on \in GroupIds \cup {None, "m1"},
           names \in SeqsUpTo(Members, MaxGroupLen), group \in GroupLists(MaxGroupLen) :
            GroupArgsPass(g, names, group) =>
                LET r == add_group(Self, g, depends_on, names, group)
                IN  /\ r.exc = "Exception" /\ r.msg = "has already been added"
                    /\ r.self = Self
                    /\ get_group(r.self, g).ret = get_group(Self, g).ret

C14_Witness ==
    /\ type = GROUP /\ op = "add_group" /\ args = <<"g1", "g2">>
    /\ exc = "Exception" /\ msg = "has already been added"
    /\ used_group_ids = {"g1", "g2"}
    /\ Keys(values) = <<"g1", "g2">>
    /\ get_group(Self, "g1").ret = DictObj(<< <<"m1", 1>>, <<"m2", 2>> >>)

(* What a method call with result r leaves in used_group_ids.              *)
UsedAfter(r) == r.self.used_group_ids

(* C15: used_group_ids only grows. In every state of a Group node, every   *)
(* add_group call, successful or failing, keeps each id recorded before    *)
(* it, and so does every other method of the node (add_sub_node,           *)
(* add_sub_edge, add_pipeline, get_group and the inherited add_node,       *)
(* add_edge, remove_edge); an id once added is therefore never added again.*)
C15_UsedIdsMonotone ==
    type = GROUP =>
        /\ \A group_id \in GroupIds \cup {""}, depends_on \in GroupIds \cup {None, "m1"},
              names \in SeqsUpTo(Members, MaxGroupLen), group \in GroupLists(MaxGroupLen) :
              used_group_ids \subseteq
                  UsedAfter(add_group(Self, group_id, depends_on, names, group))
        /\ \A x \in GroupIds \cup Members, y \in GroupIds \cup Members, p \in Payloads :
              /\ used_group_ids \subseteq UsedAfter(add_sub_node(Self, x, IntObj(p)))
              /\ used_group_ids \subseteq UsedAfter(add_sub_edge(Self, x, y))
              /\ used_group_ids \subseteq UsedAfter(add_node(Self, x, IntObj(p)))
              /\ used_group_ids \subseteq UsedAfter(add_edge(Self, x, y))
              /\ used_group_ids \subseteq UsedAfter(remove_edge(Self, x, y))
              /\ used_group_ids \subseteq UsedAfter(get_group(Self, x))
        /\ \A names \in SeqsUpTo(Members, MaxGroupLen), pipeline \in PipelineLists(MaxGroupLen) :
              used_group_ids \subseteq UsedAfter(add_pipeline(Self, names, pipeline))

C15_Witness ==
    /\ type = GROUP /\ op = "add_group" /\ exc # "none" /\ args = <<"g1", "g2">>
    /\ used_group_ids = {"g1", "g2"}

(* C16: on a Pipeline node, in every state, add_pipeline fails whenever    *)
(* the payload list is empty, or names and payloads differ in length, or   *)
(* exactly one payload is supplied; values and adjacency_table (the whole  *)
(* node) are left as they were.                                            *)
C16_BadPipelineArgsRejected ==
    type = PIPE =>
        \A names \in SeqsUpTo(NodeNames, MaxLen), pipeline \in PipelineLists(MaxLen) :
            (Len(pipeline) = 0 \/ Len(names) # Len(pipeline) \/ Len(pipeline) = 1) =>
                LET r == add_pipeline(Self, names, pipeline)
                IN  /\ r.exc # "none"
                    /\ r.self.values = values
                    /\ r.self.adjacency_table = adjacency_table
                    /\ r.self = Self

C16_Witness ==
    /\ type = PIPE /\ op = "add_pipeline"
    /\ exc = "Exception" /\ msg = "should be of the same length"
    /\ Keys(values) = <<"a", "b">>
    /\ Edges(Self) = {<<"a", "b">>}

(* C17: a call that does not match the kind of the node always fails and   *)
(* changes nothing, whatever its arguments and whatever the state:         *)
(* add_pipeline on a Group or SubDAG node, add_group and get_group on a    *)
(* Pipeline or SubDAG node. And no method changes the kind of the node.    *)
C17_KindMismatchRejected ==
    /\ \A names \in SeqsUpTo(NodeNames, MaxLen), pipeline \in PipelineLists(MaxLen) :
          LET r == add_pipeline(Self, names, pipeline)
          IN  /\ type # PIPE => (r.exc # "none" /\ r.self = Self)
              /\ r.self.type = type
    /\ \A group_id \in GroupIds \cup {""}, depends_on \in GroupIds \cup {None, "m1"},
          names \in SeqsUpTo(Members, MaxGroupLen), group \in GroupLists(MaxGroupLen) :
          LET r == add_group(Self, group_id, depends_on, names, group)
          IN  /\ type # GROUP => (r.exc # "none" /\ r.self = Self)
              /\ r.self.type = type
    /\ \A group_id \in GroupIds \cup NodeNames :
          LET r == get_group(Self, group_id)
          IN  /\ type # GROUP => (r.exc # "none" /\ r.self = Self)
              /\ r.self.type = type
    /\ \A x \in NodeNames, y \in NodeNames, p \in Payloads :
          /\ add_sub_node(Self, x, IntObj(p)).self.type = type
          /\ add_sub_edge(Self, x, y).self.type = type
          /\ add_node(Self, x, IntObj(p)).self.type = type
          /\ add_edge(Self, x, y).self.type = type
          /\ remove_edge(Self, x, y).self.type = type

C17_Witness ==
    /\ type = SUBDAG /\ op = "add_pipeline"
    /\ exc = "Exception" /\ msg = "Adding a pipeline is not allowed"
    /\ Keys(values) = <<"a", "b">>
    /\ adjacency_table = << <<"a", <<>> >>, <<"b", <<>> >> >>

(* The adjacency structure of self is the single chain over its sub-nodes  *)
(* in insertion order: each sub-node has the next one as its only          *)
(* successor and the last one has none.                                    *)
IsChain(self) ==
    /\ Keys(self.adjacency_table) = Keys(self.values)
    /\ \A i \in 1..Len(self.values) :
          self.adjacency_table[i][2] =
              IF i < Len(self.values) THEN <<self.values[i+1][1]>> ELSE <<>>

(* C18: on a Pipeline node, after any sequence of successful add_sub_node  *)
(* and add_pipeline calls (names may repeat within a call and across       *)
(* calls), the edges are exactly the chain over the sub-nodes in insertion *)
(* order; a second add_pipeline extends the chain and adds no other edge.  *)
C18_PipelineIsChain ==
    (type = PIPE /\ ~raised) => IsChain(Self)

C18_Witness ==
    /\ type = PIPE /\ ~raised /\ ~fresh
    /\ op = "add_pipeline" /\ exc = "none"
    /\ Keys(values) = <<"b", "c", "a">>
    /\ adjacency_table = << <<"b", <<"c">> >>, <<"c", <<"a">> >>, <<"a", <<>> >> >>

(* C19: detect_cycle() is exact on every adjacency structure over the      *)
(* existing nodes: it returns true if and only if some node reaches itself *)
(* along one or more edges, also when the cycle lies in a part that the    *)
(* first-inserted node does not reach and when the searches from earlier   *)
(* keys have already marked part of the graph visited.                     *)
C19_DetectCycleExact ==
    detect_cycle(Self) <=> HasCycle(Self)

C19_Witness ==
    /\ Keys(values) = <<"a", "b", "c">>
    /\ adjacency_table = << <<"a", <<>> >>, <<"b", <<"a", "c">> >>, <<"c", <<"b">> >> >>
    /\ detect_cycle(Self)

(* C20: topological_sort() and detect_cycle() terminate in every reachable *)
(* state, cyclic ones included, because each node is expanded at most once *)
(* per call: topological_sort pushes one entry per invocation of           *)
(* _topological_sort, so its result has no repeated entry and no more      *)
(* entries than there are nodes, and detect_cycle invokes _detect_cycle at *)
(* most once per node.                                                     *)
C20_EachNodeExpandedOnce ==
    /\ Distinct(topological_sort(Self))
    /\ Len(topological_sort(Self)) <= Len(values)
    /\ detect_cycle_calls(Self) <= Len(values)

C20_Witness ==
    /\ Keys(values) = <<"a", "b", "c">>
    /\ adjacency_table = << <<"a", <<"b">> >>, <<"b", <<"c">> >>, <<"c", <<"a">> >> >>
    /\ HasCycle(Self)
    /\ topological_sort(Self) = <<"a", "b", "c">>
    /\ detect_cycle_calls(Self) = 3

(* The structure of self is well formed: values and adjacency_table have   *)
(* the same keys, every successor is a key of values, no node is its own   *)
(* successor and no successor list names a node twice.                     *)
WellFormed(self) ==
    /\ Nodes(self) = {self.adjacency_table[i][1] : i \in 1..Len(self.adjacency_table)}
    /\ Len(self.adjacency_table) = Len(self.values)
    /\ Distinct(Keys(self.values)) /\ Distinct(Keys(self.adjacency_table))
    /\ \A i \in 1..Len(self.adjacency_table) :
          LET v == self.adjacency_table[i][1]
              succ == self.adjacency_table[i][2]
          IN  /\ \A j \in 1..Len(succ) : succ[j] \in Nodes(self) /\ succ[j] # v
              /\ Distinct(succ)

(* C21: in every state reached by any sequence of Graph and CondensedNode  *)
(* operations, successful or failing, the key sets of values and           *)
(* adjacency_table are equal, every name in a successor list is a key of   *)
(* values, no node is in its own successor list and no successor list      *)
(* holds a name twice.                                                     *)
C21_WellFormed ==
    WellFormed(Self)

C21_Witness ==
    /\ type = SUBDAG /\ raised
    /\ op = "add_sub_edge" /\ exc = "Exception" /\ msg = "crates a cycle"
    /\ Keys(values) = <<"a", "b", "c">>
    /\ adjacency_table = << <<"a", <<"b">> >>, <<"b", <<"c">> >>, <<"c", <<"a">> >> >>

(* C22: in every reachable state the list returned by topological_sort()   *)
(* is a permutation of the node names (every key of values exactly once    *)
(* and nothing else), and the call returns normally leaving values and     *)
(* adjacency_table as they were.                                           *)
C22_SortIsPermutation ==
    LET r == topological_sort_call(Self)
    IN  /\ r.exc = "none"
        /\ Len(r.ret) = Len(values)
        /\ {r.ret[i] : i \in 1..Len(r.ret)} = Nodes(Self)
        /\ Distinct(r.ret)
        /\ r.self.values = values
        /\ r.self.adjacency_table = adjacency_table

C22_Witness ==
    /\ Keys(values) = <<"b", "a", "c">>
    /\ adjacency_table = << <<"b", <<"a">> >>, <<"a", <<"b">> >>, <<"c", <<>> >> >>
    /\ topological_sort_call(Self).ret = <<"c", "b", "a">>

(* C23: every add_pipeline(names, payloads) call that returns without      *)
(* error on a freshly constructed Pipeline node leaves it with at least    *)
(* two sub-nodes, one per element of names, joined in a single chain; also *)
(* when names repeats a name.                                              *)
C23_PipelineHasAllNames ==
    [][\A names \in SeqsUpTo(NodeNames, MaxLen), pipeline \in PipelineLists(MaxLen) :
        ( /\ Self = Constructed(PIPE)
          /\ op' = "add_pipeline" /\ exc' = "none"
          /\ Apply("add_pipeline", <<>>, add_pipeline(Self, names, pipeline)) )
        => ( /\ Len(values') >= 2
             /\ Len(values') = Len(names)
             /\ Keys(values') = names
             /\ IsChain(Self') )]_vars

====
